---- MODULE Spec2Model ----
(***************************************************************************)
(* Model of scripts/build.js: the build pipeline that templates the page   *)
(* bundles, compiles the worker entry module, pads or obfuscates it, and   *)
(* writes dist/worker.js and dist/worker.zip.                              *)
(*                                                                         *)
(* Text is a sequence of tokens.  The external engines (terser, esbuild,   *)
(* html-minifier, javascript-obfuscator, JSZip) are symbolic: each maps    *)
(* its input text to a text that records what was applied to what.         *)
(***************************************************************************)
EXTENDS Integers, Sequences, FiniteSets

VARIABLES
    envSignal,      \* process.env.NODE_ENV
    mangleMode,     \* const mangleMode (line 13)
    tree,           \* asset tree: page directory -> set of file names in it
    iconExists,     \* ./src/assets/favicon.ico is readable
    files,          \* file name -> text content (same in every directory)
    pc,             \* position of the buildWorker/processHtmlPages continuation
    awaiting,       \* asynchronous operation the continuation is suspended on
    inflight,       \* asynchronous operations started and not yet settled
    failedAt,       \* step whose failure rejected buildWorker()
    logs,           \* console output, in order
    exitCode,       \* argument of process.exit, or NoExit
    queue,          \* indexFiles still to be processed by the for loop
    curDir,         \* dir of the current loop iteration
    finalHtml,      \* let finalHtml
    scriptMin,      \* finalScriptCode.code
    htmls,          \* result / htmls: dir -> encoded page
    reads,          \* <<dir, file>> pairs given to readFileSync
    code,           \* code.outputFiles[0].text
    junkCalls,      \* calls of generateJunkCode
    minifyCalls,    \* calls of minifyCode
    obfCalls,       \* calls of obfs.obfuscate
    minifyInput,    \* argument of the last minifyCode call
    minified,       \* minifiedCode.code
    obfInput,       \* argument of the last obfs.obfuscate call
    finalCode,      \* let finalCode
    worker,         \* const worker (annotated text)
    distCreated,    \* mkdirSync(DIST_PATH) done by this build
    rawFile,        \* content written to ./dist/worker.js by this build
    zip,            \* entries of the JSZip instance: name -> text
    archiveStatus,  \* progress of zip.generateAsync(...).then(...)
    archiveFile,    \* content written to ./dist/worker.zip by this build
    unhandled,      \* a promise nobody handles was rejected
    varCount,       \* generateJunkCode: const varCount
    funcCount,      \* generateJunkCode: const funcCount
    junkVarNames,   \* generateJunkCode: varName of each junkVars element built
    junkFuncNames,  \* generateJunkCode: funcName of each junkFuncs element built
    junkPc          \* position inside generateJunkCode

envVars   == <<envSignal, mangleMode, tree, iconExists, files>>
ctlVars   == <<pc, awaiting, inflight, failedAt, logs, exitCode>>
pageVars  == <<queue, curDir, finalHtml, scriptMin, htmls, reads>>
xformVars == <<code, junkCalls, minifyCalls, obfCalls, minifyInput, minified,
               obfInput, finalCode>>
emitVars  == <<worker, distCreated, rawFile, zip, archiveStatus, archiveFile,
               unhandled>>
junkVars  == <<varCount, funcCount, junkVarNames, junkFuncNames, junkPc>>
vars      == <<envVars, ctlVars, pageVars, xformVars, emitVars, junkVars>>

----------------------------------------------------------------------------
(* Bounds of the model. *)

\* longest index.html text drawn, in tokens
MaxIndexLen == 2
\* longest style.css / script.js text drawn, in tokens
MaxAssetLen == 1
\* longest random string drawn for a junk identifier (the code draws up to 8)
MaxRandLen == 1
\* junk declarations generated per loop before the model stops following it
MaxJunk == 2
\* Math.random() is drawn from the fractions k / RandDen, 0 <= k < RandDen
RandDen == 2

----------------------------------------------------------------------------
(* Values. *)

Unset  == "<unset>"
None   == "<none>"
NoExit == -1

\* values of NODE_ENV the model draws
EnvSignals == {Unset, "", "mangle", "obfuscate", "production"}

\* page directories that may hold an index.html
PageDirs == {"panel", "error"}

VERSION_TOKEN == "__VERSION__"
STYLE_TOKEN   == "__STYLE__"
SCRIPT_TOKEN  == "__SCRIPT__"
PlaceholderTokens == {VERSION_TOKEN, STYLE_TOKEN, SCRIPT_TOKEN}

\* pkg.version
version == <<"1.0">>

Timestamps == {"T1", "T2"}

RECURSIVE SeqsUpTo(_, _)
SeqsUpTo(S, n) ==
    IF n = 0 THEN {<<>>}
    ELSE LET shorter == SeqsUpTo(S, n - 1)
         IN  shorter \cup {Append(s, x) : s \in shorter, x \in S}

Range(s) == {s[i] : i \in 1..Len(s)}

RECURSIVE Flatten(_)
Flatten(ss) == IF ss = <<>> THEN <<>> ELSE Head(ss) \o Flatten(Tail(ss))

----------------------------------------------------------------------------
(* Library functions. *)

\* String.prototype.replaceAll(pattern, replacement) with a string replacement:
\* "$&" in the replacement stands for the matched text.
ExpandReplacement(repl, tok) ==
    [i \in 1..Len(repl) |-> IF repl[i] = "$&" THEN tok ELSE repl[i]]

ReplaceAll(text, tok, repl) ==
    Flatten([i \in 1..Len(text) |->
                IF text[i] = tok THEN ExpandReplacement(repl, tok)
                                 ELSE <<text[i]>>])

Whitespace == {" ", "\n"}

\* terser minify: drops whitespace, keeps everything else
JsMinify(text) == SelectSeq(text, LAMBDA t : t \notin Whitespace)

\* html-minifier with collapseWhitespace
HtmlMinify(text) == SelectSeq(text, LAMBDA t : t \notin Whitespace)

\* Buffer.from(text).toString('base64')
Base64(text) == <<"base64(">> \o text \o <<")">>

\* JSON.stringify of a string
JsonStringify(text) == <<"\"">> \o text \o <<"\"">>

\* obfs.obfuscate(...).getObfuscatedCode()
Obfuscate(text) == <<"obfuscated(">> \o text \o <<")">>

\* what esbuild returns for src/worker.js
CompiledText == <<"worker", " ">>

\* what generateJunkCode returns
JunkBlock == <<"junk", "\n">>

----------------------------------------------------------------------------
(* Module level, lines 12-13. *)

MangleMode_NoDefault(signal) == signal = "mangle"

MangleMode(signal) ==
    LET env == IF signal \in {Unset, ""} THEN "mangle" ELSE signal
    IN  env = "mangle"

----------------------------------------------------------------------------
(* Control. *)

\* a throw inside the async functions rejects buildWorker()
Throw_Fallback(step) ==
    /\ failedAt' = step
    /\ pc' = "mkdir"

Throw(step) ==
    /\ failedAt' = step
    /\ pc' = "rejected"

\* `await op`: the continuation is suspended until op settles
Await_Forgotten(op) == awaiting' = None

Await(op) == awaiting' = op

Running == awaiting = None /\ pc \notin {"resolved", "rejected", "exited"}

\* callbacks run only when the running continuation has suspended or ended
Idle == awaiting # None \/ pc \in {"resolved", "rejected"}

Settle(op) ==
    /\ inflight' = inflight \ {op}
    /\ awaiting' = IF awaiting = op.op THEN None ELSE awaiting

\* a rejection of op: thrown into the continuation that awaits it, if any
Reject(op, step) ==
    IF awaiting = op.op
    THEN Throw(step) /\ UNCHANGED unhandled
    ELSE unhandled' = TRUE /\ UNCHANGED <<pc, failedAt>>

Log(msg) == logs' = Append(logs, msg)

----------------------------------------------------------------------------
(* processHtmlPages, lines 30-62. *)

FileNames == {"index.html", "style.css", "script.js"}

\* globSync('**/index.html'): the directories holding an index.html
Discovered == {d \in PageDirs : "index.html" \in tree[d]}

Orderings(S) ==
    {q \in SeqsUpTo(S, Cardinality(S)) : Len(q) = Cardinality(S) /\ Range(q) = S}

\* line 41: if (dir !== 'error')
NeedsInlining_Always(dir) == TRUE

NeedsInlining(dir) == dir # "error"

\* lines 30-32
CallProcessHtmlPages ==
    /\ pc = "start" /\ Running
    /\ \E q \in Orderings(Discovered) : queue' = q
    /\ pc' = "page_loop"
    /\ UNCHANGED <<envVars, awaiting, inflight, failedAt, logs, exitCode,
                   curDir, finalHtml, scriptMin, htmls, reads,
                   xformVars, emitVars, junkVars>>

\* lines 34-35 and 60-61
PageLoop ==
    /\ pc = "page_loop" /\ Running
    /\ \/ /\ queue # <<>>
          /\ curDir' = Head(queue)
          /\ queue' = Tail(queue)
          /\ pc' = "read_index"
          /\ UNCHANGED logs
       \/ /\ queue = <<>>
          /\ Log("Assets bundled successfuly!")
          /\ pc' = "read_icon"
          /\ UNCHANGED <<queue, curDir>>
    /\ UNCHANGED <<envVars, awaiting, inflight, failedAt, exitCode,
                   finalHtml, scriptMin, htmls, reads,
                   xformVars, emitVars, junkVars>>

\* lines 38-41
ReadIndex ==
    /\ pc = "read_index" /\ Running
    /\ reads' = reads \cup {<<curDir, "index.html">>}
    /\ \/ /\ finalHtml' = ReplaceAll(files["index.html"], VERSION_TOKEN, version)
          /\ pc' = IF NeedsInlining(curDir) THEN "read_style" ELSE "html_minify"
          /\ UNCHANGED failedAt
       \/ /\ Throw("read_index")
          /\ UNCHANGED finalHtml
    /\ UNCHANGED <<envVars, awaiting, inflight, logs, exitCode,
                   queue, curDir, scriptMin, htmls,
                   xformVars, emitVars, junkVars>>

\* line 42
ReadStyle ==
    /\ pc = "read_style" /\ Running
    /\ reads' = reads \cup {<<curDir, "style.css">>}
    /\ \/ /\ "style.css" \in tree[curDir]
          /\ pc' = "read_script"
          /\ UNCHANGED failedAt
       \/ /\ "style.css" \notin tree[curDir]
          /\ Throw("read_style")
    /\ UNCHANGED <<envVars, awaiting, inflight, logs, exitCode,
                   queue, curDir, finalHtml, scriptMin, htmls,
                   xformVars, emitVars, junkVars>>

\* line 43
ReadScript ==
    /\ pc = "read_script" /\ Running
    /\ reads' = reads \cup {<<curDir, "script.js">>}
    /\ \/ /\ "script.js" \in tree[curDir]
          /\ pc' = "minify_script"
          /\ UNCHANGED failedAt
       \/ /\ "script.js" \notin tree[curDir]
          /\ Throw("read_script")
    /\ UNCHANGED <<envVars, awaiting, inflight, logs, exitCode,
                   queue, curDir, finalHtml, scriptMin, htmls,
                   xformVars, emitVars, junkVars>>

\* line 44: await jsMinify(scriptCode), the call
CallJsMinify ==
    /\ pc = "minify_script" /\ Running
    /\ inflight' = inflight \cup {[op |-> "jsMinify", dir |-> curDir]}
    /\ Await("jsMinify")
    /\ pc' = "inline"
    /\ UNCHANGED <<envVars, failedAt, logs, exitCode,
                   pageVars, xformVars, emitVars, junkVars>>

\* line 44: await jsMinify(scriptCode), the promise settles
SettleJsMinify ==
    /\ Idle
    /\ \E o \in inflight :
          /\ o.op = "jsMinify"
          /\ Settle(o)
          /\ \/ /\ scriptMin' = JsMinify(files["script.js"])
                /\ UNCHANGED <<pc, failedAt, unhandled>>
             \/ /\ Reject(o, "minify_script")
                /\ UNCHANGED scriptMin
    /\ UNCHANGED <<envVars, logs, exitCode,
                   queue, curDir, finalHtml, htmls, reads, xformVars,
                   worker, distCreated, rawFile, zip, archiveStatus, archiveFile,
                   junkVars>>

\* lines 45-47
Inline ==
    /\ pc = "inline" /\ Running
    /\ finalHtml' =
          ReplaceAll(
            ReplaceAll(finalHtml, STYLE_TOKEN,
                       <<"<style>">> \o files["style.css"] \o <<"</style>">>),
            SCRIPT_TOKEN, scriptMin)
    /\ pc' = "html_minify"
    /\ UNCHANGED <<envVars, awaiting, inflight, failedAt, logs, exitCode,
                   queue, curDir, scriptMin, htmls, reads,
                   xformVars, emitVars, junkVars>>

\* lines 50-57
HtmlMinifyEncode ==
    /\ pc = "html_minify" /\ Running
    /\ \/ /\ htmls' = [d \in DOMAIN htmls \cup {curDir} |->
                          IF d = curDir
                          THEN JsonStringify(Base64(HtmlMinify(finalHtml)))
                          ELSE htmls[d]]
          /\ pc' = "page_loop"
          /\ UNCHANGED failedAt
       \/ /\ Throw("html_minify")
          /\ UNCHANGED htmls
    /\ UNCHANGED <<envVars, awaiting, inflight, logs, exitCode,
                   queue, curDir, finalHtml, scriptMin, reads,
                   xformVars, emitVars, junkVars>>

----------------------------------------------------------------------------
(* buildWorker, lines 85-203. *)

\* lines 88-89
ReadIcon ==
    /\ pc = "read_icon" /\ Running
    /\ reads' = reads \cup {<<".", "favicon.ico">>}
    /\ \/ /\ iconExists
          /\ pc' = "compile"
          /\ UNCHANGED failedAt
       \/ /\ ~iconExists
          /\ Throw("read_icon")
    /\ UNCHANGED <<envVars, awaiting, inflight, logs, exitCode,
                   queue, curDir, finalHtml, scriptMin, htmls,
                   xformVars, emitVars, junkVars>>

\* lines 91-107: await build({...}), the call
CallBuild ==
    /\ pc = "compile" /\ Running
    /\ inflight' = inflight \cup {[op |-> "build", dir |-> None]}
    /\ Await("build")
    /\ pc' = "built"
    /\ UNCHANGED <<envVars, failedAt, logs, exitCode,
                   pageVars, xformVars, emitVars, junkVars>>

\* lines 91-107: await build({...}), the promise settles
SettleBuild ==
    /\ Idle
    /\ \E o \in inflight :
          /\ o.op = "build"
          /\ Settle(o)
          /\ \/ /\ code' = CompiledText
                /\ UNCHANGED <<pc, failedAt, unhandled>>
             \/ /\ Reject(o, "build")
                /\ UNCHANGED code
    /\ UNCHANGED <<envVars, logs, exitCode, pageVars,
                   junkCalls, minifyCalls, obfCalls, minifyInput, minified,
                   obfInput, finalCode,
                   worker, distCreated, rawFile, zip, archiveStatus, archiveFile,
                   junkVars>>

\* line 109
LogBuilt ==
    /\ pc = "built" /\ Running
    /\ Log("Worker built successfuly!")
    /\ pc' = "transform"
    /\ UNCHANGED <<envVars, awaiting, inflight, failedAt, exitCode,
                   pageVars, xformVars, emitVars, junkVars>>

\* line 131: junkCode + code.outputFiles[0].text
PaddedInput_JunkLast(junk, text) == text \o junk

PaddedInput(junk, text) == junk \o text

\* lines 129-131 and 134, up to the call of minifyCode (lines 111-112)
Transform ==
    /\ pc = "transform" /\ Running
    /\ \/ /\ mangleMode
          /\ junkCalls' = junkCalls + 1
          /\ minifyInput' = PaddedInput(JunkBlock, code)
       \/ /\ ~mangleMode
          /\ minifyInput' = code
          /\ UNCHANGED junkCalls
    /\ minifyCalls' = minifyCalls + 1
    /\ inflight' = inflight \cup {[op |-> "minifyCode", dir |-> None]}
    /\ Await("minifyCode")
    /\ pc' = "minified"
    /\ UNCHANGED <<envVars, failedAt, logs, exitCode, pageVars,
                   code, obfCalls, minified, obfInput, finalCode,
                   emitVars, junkVars>>

\* lines 112-124: minifyCode settles
SettleMinifyCode ==
    /\ Idle
    /\ \E o \in inflight :
          /\ o.op = "minifyCode"
          /\ Settle(o)
          /\ \/ /\ minified' = JsMinify(minifyInput)
                /\ Log("Worker minified successfuly!")
                /\ UNCHANGED <<pc, failedAt, unhandled>>
             \/ /\ Reject(o, "minifyCode")
                /\ UNCHANGED <<minified, logs>>
    /\ UNCHANGED <<envVars, exitCode, pageVars,
                   code, junkCalls, minifyCalls, obfCalls, minifyInput,
                   obfInput, finalCode,
                   worker, distCreated, rawFile, zip, archiveStatus, archiveFile,
                   junkVars>>

\* line 132
AssignPadded ==
    /\ pc = "minified" /\ Running
    /\ mangleMode
    /\ finalCode' = minified
    /\ pc' = "annotate"
    /\ UNCHANGED <<envVars, awaiting, inflight, failedAt, logs, exitCode,
                   pageVars,
                   code, junkCalls, minifyCalls, obfCalls, minifyInput, minified,
                   obfInput, emitVars, junkVars>>

\* lines 135-186
CallObfuscate ==
    /\ pc = "minified" /\ Running
    /\ ~mangleMode
    /\ obfCalls' = obfCalls + 1
    /\ obfInput' = minified
    /\ \/ /\ Log("Worker obfuscated successfuly!")
          /\ finalCode' = Obfuscate(minified)
          /\ pc' = "annotate"
          /\ UNCHANGED failedAt
       \/ /\ Throw("obfuscate")
          /\ UNCHANGED <<logs, finalCode>>
    /\ UNCHANGED <<envVars, awaiting, inflight, exitCode, pageVars,
                   code, junkCalls, minifyCalls, minifyInput, minified,
                   emitVars, junkVars>>

\* lines 189-191
Annotated(timestamp, text) ==
    <<"// Build: ", timestamp, "\n", "// @ts-nocheck", "\n">> \o text

Annotate ==
    /\ pc = "annotate" /\ Running
    /\ \E ts \in Timestamps : worker' = Annotated(ts, finalCode)
    /\ pc' = "mkdir"
    /\ UNCHANGED <<envVars, awaiting, inflight, failedAt, logs, exitCode,
                   pageVars, xformVars,
                   distCreated, rawFile, zip, archiveStatus, archiveFile,
                   unhandled, junkVars>>

\* line 192
Mkdir ==
    /\ pc = "mkdir" /\ Running
    /\ \/ /\ distCreated' = TRUE
          /\ pc' = "write_raw"
          /\ UNCHANGED failedAt
       \/ /\ Throw("mkdir")
          /\ UNCHANGED distCreated
    /\ UNCHANGED <<envVars, awaiting, inflight, logs, exitCode,
                   pageVars, xformVars,
                   worker, rawFile, zip, archiveStatus, archiveFile,
                   unhandled, junkVars>>

\* line 193
WriteRaw ==
    /\ pc = "write_raw" /\ Running
    /\ \/ /\ rawFile' = <<worker>>
          /\ pc' = "zip"
          /\ UNCHANGED failedAt
       \/ /\ Throw("write_raw")
          /\ UNCHANGED rawFile
    /\ UNCHANGED <<envVars, awaiting, inflight, logs, exitCode,
                   pageVars, xformVars,
                   worker, distCreated, zip, archiveStatus, archiveFile,
                   unhandled, junkVars>>

\* line 196: zip.file(name, text)
ZipFile_RawName(entries, name, text) ==
    [n \in DOMAIN entries \cup {"worker.js"} |->
        IF n = "worker.js" THEN text ELSE entries[n]]

ZipFile(entries, name, text) ==
    [n \in DOMAIN entries \cup {name} |-> IF n = name THEN text ELSE entries[n]]

\* lines 195-200, up to the return of .then(...)
StartZip ==
    /\ pc = "zip" /\ Running
    /\ zip' = ZipFile(zip, "_worker.js", worker)
    /\ archiveStatus' = "generating"
    /\ pc' = "log_done"
    /\ UNCHANGED <<envVars, awaiting, inflight, failedAt, logs, exitCode,
                   pageVars, xformVars,
                   worker, distCreated, rawFile, archiveFile,
                   unhandled, junkVars>>

\* lines 202-203
LogDone ==
    /\ pc = "log_done" /\ Running
    /\ Log("Done!")
    /\ pc' = "resolved"
    /\ UNCHANGED <<envVars, awaiting, inflight, failedAt, exitCode,
                   pageVars, xformVars, emitVars, junkVars>>

\* the promise of lines 197-200 rejects: nothing awaits or catches it
ArchiveRejected_Surfaced ==
    /\ archiveStatus' = "failed"
    /\ Throw("archive")
    /\ UNCHANGED unhandled

ArchiveRejected ==
    /\ archiveStatus' = "failed"
    /\ unhandled' = TRUE
    /\ UNCHANGED <<pc, failedAt>>

\* lines 197-199: generateAsync settles
ZipGenerated ==
    /\ Idle
    /\ archiveStatus = "generating"
    /\ \/ /\ archiveStatus' = "generated"
          /\ UNCHANGED <<pc, failedAt, unhandled>>
       \/ ArchiveRejected
    /\ UNCHANGED <<envVars, awaiting, inflight, logs, exitCode,
                   pageVars, xformVars,
                   worker, distCreated, rawFile, zip, archiveFile, junkVars>>

\* JSZip's DEFLATE-compressed buffer of the entries
Deflated(entries) == [compression |-> "DEFLATE", entries |-> entries]

\* line 200: nodebuffer => writeFileSync('./dist/worker.zip', nodebuffer)
ZipWrite ==
    /\ Idle
    /\ archiveStatus = "generated"
    /\ \/ /\ archiveFile' = <<Deflated(zip)>>
          /\ archiveStatus' = "written"
          /\ UNCHANGED <<pc, failedAt, unhandled>>
       \/ /\ ArchiveRejected
          /\ UNCHANGED archiveFile
    /\ UNCHANGED <<envVars, awaiting, inflight, logs, exitCode,
                   pageVars, xformVars,
                   worker, distCreated, rawFile, zip, junkVars>>

\* lines 205-208
CatchHandler_ExitZero ==
    /\ pc = "rejected"
    /\ Log("Build failed:")
    /\ exitCode' = 0
    /\ pc' = "exited"
    /\ UNCHANGED <<envVars, awaiting, inflight, failedAt,
                   pageVars, xformVars, emitVars, junkVars>>

CatchHandler ==
    /\ pc = "rejected"
    /\ Log("Build failed:")
    /\ exitCode' = 1
    /\ pc' = "exited"
    /\ UNCHANGED <<envVars, awaiting, inflight, failedAt,
                   pageVars, xformVars, emitVars, junkVars>>

----------------------------------------------------------------------------
(* generateJunkCode, lines 64-83. *)

minVars  == 50
maxVars  == 500
minFuncs == 50
maxFuncs == 500

\* Math.floor(Math.random() * (max - min + 1)) + min, Math.random() = k / RandDen
RandomCount(k, min, max) == ((k * (max - min + 1)) \div RandDen) + min

\* characters of Number.prototype.toString(36) the model draws
RandChars == {"a", "1"}

\* Math.random().toString(36).substring(2, 10)
RandomStrings == SeqsUpTo(RandChars, MaxRandLen)

Digits == <<"0", "1", "2", "3", "4", "5", "6", "7", "8", "9">>

\* template-literal conversion of a non-negative integer
RECURSIVE IndexText(_)
IndexText(n) ==
    IF n < 10 THEN <<Digits[n + 1]>>
    ELSE IndexText(n \div 10) \o <<Digits[(n % 10) + 1]>>

VarPrefix  == <<"_", "_", "j", "u", "n", "k", "_">>
FuncPrefix == <<"_", "_", "j", "u", "n", "k", "F", "u", "n", "c", "_">>

\* lines 72 and 78: `${prefix}${random}_${i}`
JunkName_NoIndex(prefix, random, i) == prefix \o random

JunkName(prefix, random, i) == prefix \o random \o <<"_">> \o IndexText(i)

Min(a, b) == IF a < b THEN a ELSE b

\* lines 68-69
JunkCounts ==
    /\ junkPc = "counts"
    /\ \E k \in 0..(RandDen - 1) : varCount' = RandomCount(k, minVars, maxVars)
    /\ \E k \in 0..(RandDen - 1) : funcCount' = RandomCount(k, minFuncs, maxFuncs)
    /\ junkPc' = "vars"
    /\ UNCHANGED <<envVars, ctlVars, pageVars, xformVars, emitVars,
                   junkVarNames, junkFuncNames>>

\* lines 71-75, one element of junkVars (the first MaxJunk are followed)
JunkVar ==
    /\ junkPc = "vars"
    /\ Len(junkVarNames) < Min(varCount, MaxJunk)
    /\ \E r \in RandomStrings :
          junkVarNames' =
              Append(junkVarNames, JunkName(VarPrefix, r, Len(junkVarNames)))
    /\ UNCHANGED <<envVars, ctlVars, pageVars, xformVars, emitVars,
                   varCount, funcCount, junkFuncNames, junkPc>>

\* line 75: the array is complete
JunkVarsJoined ==
    /\ junkPc = "vars"
    /\ Len(junkVarNames) = Min(varCount, MaxJunk)
    /\ junkPc' = "funcs"
    /\ UNCHANGED <<envVars, ctlVars, pageVars, xformVars, emitVars,
                   varCount, funcCount, junkVarNames, junkFuncNames>>

\* lines 77-80, one element of junkFuncs
JunkFunc ==
    /\ junkPc = "funcs"
    /\ Len(junkFuncNames) < Min(funcCount, MaxJunk)
    /\ \E r \in RandomStrings :
          junkFuncNames' =
              Append(junkFuncNames, JunkName(FuncPrefix, r, Len(junkFuncNames)))
    /\ UNCHANGED <<envVars, ctlVars, pageVars, xformVars, emitVars,
                   varCount, funcCount, junkVarNames, junkPc>>

\* line 82
JunkReturn ==
    /\ junkPc = "funcs"
    /\ Len(junkFuncNames) = Min(funcCount, MaxJunk)
    /\ junkPc' = "returned"
    /\ UNCHANGED <<envVars, ctlVars, pageVars, xformVars, emitVars,
                   varCount, funcCount, junkVarNames, junkFuncNames>>

----------------------------------------------------------------------------
(* The build. *)

\* asset trees: a directory is a page bundle when it holds index.html
Trees ==
    {t \in [PageDirs -> SUBSET FileNames] :
        \A d \in PageDirs : "index.html" \notin t[d] => t[d] = {}}

\* the texts of the asset files of an ordinary build
DefaultFiles ==
    [f \in FileNames |->
        CASE f = "index.html" -> <<"<html>", VERSION_TOKEN, STYLE_TOKEN, SCRIPT_TOKEN>>
          [] f = "style.css"  -> <<"css">>
          [] f = "script.js"  -> <<"js", " ">>]

InitBuild ==
    /\ pc = "start" /\ awaiting = None /\ inflight = {}
    /\ failedAt = None /\ logs = <<>> /\ exitCode = NoExit
    /\ queue = <<>> /\ curDir = None /\ finalHtml = <<>> /\ scriptMin = <<>>
    /\ htmls = [d \in {} |-> <<>>] /\ reads = {}
    /\ code = <<>> /\ junkCalls = 0 /\ minifyCalls = 0 /\ obfCalls = 0
    /\ minifyInput = <<>> /\ minified = <<>> /\ obfInput = <<>>
    /\ finalCode = <<>>
    /\ worker = <<>> /\ distCreated = FALSE /\ rawFile = <<>>
    /\ zip = [n \in {} |-> <<>>] /\ archiveStatus = "idle"
    /\ archiveFile = <<>> /\ unhandled = FALSE

InitJunkIdle ==
    /\ varCount = 0 /\ funcCount = 0
    /\ junkVarNames = <<>> /\ junkFuncNames = <<>>
    /\ junkPc = "idle"

Init ==
    /\ envSignal \in EnvSignals
    /\ mangleMode = MangleMode(envSignal)
    /\ tree \in Trees
    /\ iconExists \in BOOLEAN
    /\ files = DefaultFiles
    /\ InitBuild
    /\ InitJunkIdle

NextPage ==
    \/ CallProcessHtmlPages
    \/ PageLoop
    \/ ReadIndex
    \/ ReadStyle
    \/ ReadScript
    \/ CallJsMinify
    \/ SettleJsMinify
    \/ Inline
    \/ HtmlMinifyEncode

Next ==
    \/ NextPage
    \/ ReadIcon
    \/ CallBuild
    \/ SettleBuild
    \/ LogBuilt
    \/ Transform
    \/ SettleMinifyCode
    \/ AssignPadded
    \/ CallObfuscate
    \/ Annotate
    \/ Mkdir
    \/ WriteRaw
    \/ StartZip
    \/ LogDone
    \/ ZipGenerated
    \/ ZipWrite
    \/ CatchHandler

Spec == Init /\ [][Next]_vars

----------------------------------------------------------------------------
(* processHtmlPages over the texts of the asset files. *)

IndexTokens == {"<html>"} \cup PlaceholderTokens
AssetTokens == {"a", "$&", " "} \cup PlaceholderTokens

\* asset trees drawn: complete, or the panel bundle lacking one file
PageTrees ==
    {t \in Trees : /\ t["error"] = {"index.html"}
                   /\ "index.html" \in t["panel"]
                   /\ t["panel"] # {"index.html"}}

InitPage ==
    /\ envSignal = Unset
    /\ mangleMode = MangleMode(envSignal)
    /\ tree \in PageTrees
    /\ iconExists = TRUE
    /\ files \in {f \in [FileNames -> SeqsUpTo(IndexTokens \cup AssetTokens,
                                               MaxIndexLen)] :
                     /\ f["index.html"] \in SeqsUpTo(IndexTokens, MaxIndexLen)
                     /\ f["style.css"] \in SeqsUpTo(AssetTokens, MaxAssetLen)
                     /\ f["script.js"] \in SeqsUpTo(AssetTokens, MaxAssetLen)}
    /\ InitBuild
    /\ InitJunkIdle

SpecPage == InitPage /\ [][NextPage]_vars

----------------------------------------------------------------------------
(* generateJunkCode on its own. *)

InitJunk ==
    /\ envSignal = Unset
    /\ mangleMode = MangleMode(envSignal)
    /\ tree \in {t \in Trees : \A d \in PageDirs : t[d] = FileNames}
    /\ iconExists = TRUE
    /\ files = DefaultFiles
    /\ InitBuild
    /\ varCount = 0 /\ funcCount = 0
    /\ junkVarNames = <<>> /\ junkFuncNames = <<>>
    /\ junkPc = "counts"

NextJunk ==
    \/ JunkCounts
    \/ JunkVar
    \/ JunkVarsJoined
    \/ JunkFunc
    \/ JunkReturn

SpecJunk == InitJunk /\ [][NextJunk]_vars

\* the event loop runs the rejection handler registered at line 205
FairSpec == Spec /\ WF_vars(CatchHandler)

----------------------------------------------------------------------------
(* Properties. *)

PreEmissionSteps ==
    {"read_index", "read_style", "read_script", "minify_script", "html_minify",
     "read_icon", "build", "minifyCode", "obfuscate"}

Logged(msg) == \E i \in 1..Len(logs) : logs[i] = msg

\* C1: a build in which a step before emission failed has created no output
\* directory and written neither dist/worker.js nor dist/worker.zip; any write
\* happens only once the final code exists and no such step has failed.
C1_NoOutputAfterFailure ==
    /\ failedAt \in PreEmissionSteps =>
          ~distCreated /\ rawFile = <<>> /\ archiveFile = <<>>
    /\ (distCreated \/ rawFile # <<>> \/ archiveFile # <<>>) =>
          /\ failedAt \notin PreEmissionSteps
          /\ finalCode # <<>>
          /\ worker = Annotated(worker[2], finalCode)

C1_Witness ==
    /\ pc = "exited"
    /\ failedAt = "obfuscate"
    /\ ~distCreated /\ rawFile = <<>>

\* C2: a failure raised in the pipeline leaves buildWorker() rejected, and the
\* handler then logs the failure indicator and exits with status 1; a build
\* with no failed step never logs the indicator and never calls exit.
C2_FailureReachesDriver ==
    /\ [](/\ failedAt # None => pc \in {"rejected", "exited"}
          /\ pc = "exited" =>
                /\ failedAt # None
                /\ logs # <<>> /\ logs[Len(logs)] = "Build failed:"
                /\ exitCode = 1
          /\ failedAt = None => ~Logged("Build failed:") /\ exitCode = NoExit)
    /\ (failedAt # None ~> (exitCode = 1 /\ Logged("Build failed:")))

C2_Witness ==
    /\ pc = "exited"
    /\ failedAt = "build"
    /\ exitCode = 1

\* the value the claim calls the documented alternate sentinel
ObfuscateSentinel == "obfuscate"

\* C3 as stated: the mode is obfuscated only for the sentinel value, and padded
\* for the unset signal and for every other value.
C3_SentinelOnly ==
    mangleMode = (envSignal # ObfuscateSentinel)

\* C3 amended: the mode never changes, it is padded exactly when the signal is
\* unset, empty or "mangle", and obfuscated for every other value.
C3_ModeFromSignal ==
    /\ [](mangleMode = (envSignal \in {Unset, "", "mangle"}))
    /\ [][mangleMode' = mangleMode /\ envSignal' = envSignal]_vars

C3_Witness ==
    /\ envSignal = "production"
    /\ ~mangleMode
    /\ obfCalls = 1
    /\ pc = "resolved"

TransformDone ==
    \/ pc \in {"annotate", "mkdir", "write_raw", "zip", "log_done", "resolved"}
    \/ failedAt \in {"mkdir", "write_raw"}

\* C4: padded mode calls the junk synthesizer once, minifies junk followed by
\* the compiled module once and never obfuscates; obfuscated mode never calls
\* the junk synthesizer, minifies the compiled module alone and obfuscates the
\* minifier's output once, after minification.
C4_ModesExclusive ==
    /\ junkCalls <= 1 /\ minifyCalls <= 1 /\ obfCalls <= 1
    /\ mangleMode => obfCalls = 0
    /\ ~mangleMode => junkCalls = 0
    /\ minifyCalls = 1 =>
          /\ junkCalls = (IF mangleMode THEN 1 ELSE 0)
          /\ minifyInput = (IF mangleMode THEN JunkBlock \o CompiledText
                                          ELSE CompiledText)
    /\ obfCalls = 1 =>
          /\ minifyCalls = 1
          /\ Logged("Worker minified successfuly!")
          /\ \A o \in inflight : o.op # "minifyCode"
          /\ obfInput = minified
          /\ minified = JsMinify(CompiledText)
    /\ TransformDone =>
          /\ minifyCalls = 1
          /\ mangleMode => finalCode = JsMinify(JunkBlock \o CompiledText)
          /\ ~mangleMode =>
                obfCalls = 1 /\ finalCode = Obfuscate(JsMinify(CompiledText))

C4_Witness ==
    /\ pc = "resolved"
    /\ mangleMode
    /\ junkCalls = 1 /\ minifyCalls = 1

\* the stage a position of the pipeline belongs to
StageRank(p) ==
    CASE p \in {"start", "page_loop", "read_index", "read_style", "read_script",
                "minify_script", "inline", "html_minify"} -> 1
      [] p \in {"read_icon", "compile", "built"} -> 2
      [] p \in {"transform", "minified", "obfuscate", "annotate"} -> 3
      [] p \in {"mkdir", "write_raw"} -> 4
      [] OTHER -> 5

OpRank(op) ==
    CASE op = "jsMinify" -> 1
      [] op = "build" -> 2
      [] OTHER -> 3

\* C5: every asynchronous call is awaited by the pipeline while it is in
\* flight, so at most one is in flight, it belongs to the stage the pipeline is
\* in and to the page being processed, and the pipeline moves from a stage
\* only to the next one.
C5_Sequential ==
    /\ [](/\ Cardinality(inflight) <= 1
          /\ \A o \in inflight :
                /\ awaiting = o.op
                /\ OpRank(o.op) = StageRank(pc)
                /\ o.op = "jsMinify" => o.dir = curDir /\ curDir \notin DOMAIN htmls)
    /\ [][\/ StageRank(pc') = StageRank(pc)
          \/ StageRank(pc') = StageRank(pc) + 1
          \/ pc' \in {"rejected", "exited"}]_vars

C5_Witness ==
    /\ pc = "minified"
    /\ awaiting = "minifyCode"
    /\ inflight = {[op |-> "minifyCode", dir |-> None]}
    /\ DOMAIN htmls = PageDirs

\* C6: the archive is started only after the raw file is written; it settles
\* only after "Done!" is logged and buildWorker() has resolved; its failure
\* leaves buildWorker() resolved and the failure handler unused.
C6_FireAndForget ==
    /\ archiveStatus # "idle" => rawFile # <<>>
    /\ archiveStatus \in {"generated", "written", "failed"} =>
          Logged("Done!") /\ pc = "resolved"
    /\ archiveStatus = "failed" =>
          /\ pc = "resolved"
          /\ failedAt = None
          /\ ~Logged("Build failed:")
          /\ exitCode = NoExit

C6_Witness ==
    /\ archiveStatus = "failed"
    /\ pc = "resolved"
    /\ Logged("Done!")
    /\ archiveFile = <<>>

InlinedFiles == {"style.css", "script.js"}

\* C7: no stylesheet or script of the error bundle is ever read, so the error
\* bundle is encoded whatever files it lacks; every other bundle that is
\* inlined or encoded had both files read, and a missing one aborts the build.
C7_InliningIffNotError ==
    /\ \A f \in InlinedFiles : <<"error", f>> \notin reads
    /\ \A d \in PageDirs \ {"error"} :
          /\ (d \in DOMAIN htmls \/ (d = curDir /\ pc \in {"inline", "html_minify"})) =>
                \A f \in InlinedFiles : <<d, f>> \in reads /\ f \in tree[d]
          /\ \A f \in InlinedFiles :
                (<<d, f>> \in reads /\ f \notin tree[d]) =>
                    /\ pc \in {"rejected", "exited"}
                    /\ failedAt \in {"read_style", "read_script"}
                    /\ d \notin DOMAIN htmls
    /\ Logged("Assets bundled successfuly!") =>
          /\ DOMAIN htmls = Discovered
          /\ \A d \in Discovered \ {"error"} : InlinedFiles \subseteq tree[d]

C7_Witness ==
    /\ tree["error"] = {"index.html"}
    /\ "error" \in DOMAIN htmls
    /\ "panel" \in DOMAIN htmls
    /\ pc = "resolved"

\* C8 as stated: once the substitutions of a bundle other than the error
\* bundle are done, its page text holds no version, style or script
\* placeholder token, whatever the texts of its three files.
C8_NoPlaceholderLeft ==
    (pc = "html_minify" /\ curDir # "error") =>
        Range(finalHtml) \cap PlaceholderTokens = {}

AllNames == junkVarNames \o junkFuncNames

\* C9: the identifiers generated in one invocation are pairwise distinct,
\* variables and functions together, and both counts lie in 50..500.
C9_UniqueNames ==
    /\ \A i, j \in 1..Len(AllNames) : i # j => AllNames[i] # AllNames[j]
    /\ junkPc # "counts" =>
          /\ varCount \in 50..500
          /\ funcCount \in 50..500

C9_Witness ==
    /\ junkPc = "returned"
    /\ Len(junkVarNames) = MaxJunk /\ Len(junkFuncNames) = MaxJunk
    /\ junkVarNames[1] = VarPrefix \o <<"1", "_", "0">>
    /\ junkVarNames[2] = VarPrefix \o <<"1", "_", "1">>
    /\ junkFuncNames[1] = FuncPrefix \o <<"1", "_", "0">>
    /\ varCount = 50

\* C10: a written archive holds exactly one entry, named _worker.js, whose
\* text is the annotated text this build wrote to the raw output file.
C10_ArchiveMatchesRaw ==
    archiveFile # <<>> =>
        /\ rawFile # <<>>
        /\ DOMAIN archiveFile[1].entries = {"_worker.js"}
        /\ archiveFile[1].entries["_worker.js"] = rawFile[1]
        /\ rawFile[1] = Annotated(rawFile[1][2], finalCode)

C10_Witness ==
    /\ archiveStatus = "written"
    /\ archiveFile # <<>>
    /\ rawFile = <<worker>>
====
